---- MODULE Spec2Model ----
(***************************************************************************)
(* opz-backup (src/src/main.rs): device discovery from `df` output and the *)
(* progress-tracked copy, as a state machine.                              *)
(*                                                                         *)
(* A Rust String is modelled as the sequence of its UTF-8 code units, each *)
(* a one-character TLA+ string.  ASCII code units stand for themselves;    *)
(* "L2" is the lead byte of a two-byte character, "L3" the lead byte of a  *)
(* three-byte character and "CB" a continuation byte.                      *)
(***************************************************************************)
EXTENDS Integers, Sequences, FiniteSets, TLC

\* ------------------------------------------------------------------------
\* Bounds of the model
\* ------------------------------------------------------------------------
\* rows after the header in a df listing
MaxRows == 2
\* rows after the header in the listing a whole run reads
MaxRunRows == 1
\* bytes of a path given to extract_device_name alone
MaxPathLen == 4
\* largest totalBytes / copiedBytes of a transfer event in a run
MaxEvTotal == 2
MaxEvCopied == 3
\* largest totalBytes / copiedBytes given to calculate_progress_percentage alone
MaxTotalBytes == 50
MaxCopiedBytes == 60
\* mount points handed to find_device alone
MaxMounts == 3
\* file names: ASCII bytes before and after an optional multi-byte character
MaxLead == 5
MaxTail == 49

\* ------------------------------------------------------------------------
\* str helpers (std): contains, starts_with, split, lines, split_whitespace
\* ------------------------------------------------------------------------
Last(s) == s[Len(s)]

\* str::starts_with
StartsWith(s, p) ==
    /\ Len(p) <= Len(s)
    /\ SubSeq(s, 1, Len(p)) = p

\* str::contains (case-sensitive substring)
Contains(s, p) ==
    \E i \in 0..(Len(s) - Len(p)) : SubSeq(s, i + 1, i + Len(p)) = p

\* the k-th smallest element of a set of numbers
Nth(S, k) == CHOOSE i \in S : Cardinality({j \in S : j <= i}) = k

\* str::split(sep) for a one-byte separator: the segments between the
\* separators, always at least one
Split(s, sep) ==
    LET cuts == {i \in 1..Len(s) : s[i] = sep}
        n == Cardinality(cuts) + 1
        Cut(k) == IF k = 0 THEN 0 ELSE IF k = n THEN Len(s) + 1 ELSE Nth(cuts, k)
    IN [k \in 1..n |-> SubSeq(s, Cut(k - 1) + 1, Cut(k) - 1)]

\* str::lines: split at "\n", a trailing "\r" of a terminated line is
\* removed, and a final line ending does not start another (empty) line
StripCr(l) ==
    IF Len(l) > 0 /\ Last(l) = "\r" THEN SubSeq(l, 1, Len(l) - 1) ELSE l

Lines(s) ==
    LET raw == Split(s, "\n")
        n == Len(raw)
        kept == IF raw[n] = << >> THEN n - 1 ELSE n
    IN [i \in 1..kept |-> IF i < n THEN StripCr(raw[i]) ELSE raw[i]]

IsWhitespace(c) == c \in {" ", "\t", "\n", "\r"}

\* str::split_whitespace: the maximal runs of non-whitespace, never empty
SplitWhitespace(s) ==
    LET starts == {i \in 1..Len(s) :
                     ~IsWhitespace(s[i]) /\ (i = 1 \/ IsWhitespace(s[i - 1]))}
        ends == {i \in 1..Len(s) :
                   ~IsWhitespace(s[i]) /\ (i = Len(s) \/ IsWhitespace(s[i + 1]))}
    IN [k \in 1..Cardinality(starts) |-> SubSeq(s, Nth(starts, k), Nth(ends, k))]

\* ------------------------------------------------------------------------
\* f64 arithmetic (IEEE 754 binary64, round to nearest, ties to even)
\* A positive finite f64 is [a, b, c, e]: its 53-bit significand is
\* a * 2^36 + b * 2^18 + c with 2^16 <= a < 2^17 and b, c < 2^18, and its
\* value is significand * 2^(e - 52).  Zero is F64Zero.  (The limbs keep
\* every intermediate value within the checker's integers.)
\* ------------------------------------------------------------------------
\* 2^n for 0 <= n <= 30
PowersOfTwo ==
    <<1, 2, 4, 8, 16, 32, 64, 128, 256, 512, 1024, 2048, 4096, 8192, 16384,
      32768, 65536, 131072, 262144, 524288, 1048576, 2097152, 4194304, 8388608,
      16777216, 33554432, 67108864, 134217728, 268435456, 536870912, 1073741824>>
Pow2(n) == PowersOfTwo[n + 1]

LimbBits == 18
TopBits == 17
Limb == Pow2(LimbBits)

F64Zero == [a |-> 0, b |-> 0, c |-> 0, e |-> 0]

\* the next k quotient bits of r / den (r < den <= 2^22, k <= 9) and the
\* remainder left
DivChunk(r, den, k) ==
    [q |-> (r * Pow2(k)) \div den, r |-> (r * Pow2(k)) % den]

\* two chunks of k bits each
DivLimb(r, den, k) ==
    LET hi == DivChunk(r, den, k)
        lo == DivChunk(hi.r, den, k)
    IN [q |-> hi.q * Pow2(k) + lo.q, r |-> lo.r]

\* significand + 1, renormalised when the carry leaves the top limb
F64Successor(x) ==
    IF x.c + 1 < Limb THEN [x EXCEPT !.c = @ + 1]
    ELSE IF x.b + 1 < Limb THEN [x EXCEPT !.c = 0, !.b = @ + 1]
    ELSE IF x.a + 1 < Pow2(TopBits) THEN [x EXCEPT !.c = 0, !.b = 0, !.a = @ + 1]
    ELSE [a |-> Pow2(TopBits - 1), b |-> 0, c |-> 0, e |-> x.e + 1]

\* round to nearest, ties to even: `half` is the first dropped bit, `below`
\* says that nonzero bits follow it
F64Round(x, half, below) ==
    IF half /\ (below \/ x.c % 2 = 1) THEN F64Successor(x) ELSE x

\* floor(log2(c / t)) for c >= t > 0
RECURSIVE ShiftUp(_, _)
ShiftUp(c, t) == IF 2 * t <= c THEN 1 + ShiftUp(c, 2 * t) ELSE 0

\* the least k with c * 2^k >= t, for 0 < c
RECURSIVE ShiftDown(_, _)
ShiftDown(c, t) == IF c >= t THEN 0 ELSE 1 + ShiftDown(2 * c, t)

\* (c as f64) / (t as f64) for integers 0 <= c, 0 < t with c, 2t <= 2^22:
\* both conversions are exact there (every integer below 2^53 is an f64),
\* and the quotient is the exact quotient rounded once
F64Div(c, t) ==
    IF c = 0 THEN F64Zero
    ELSE LET up == IF c >= t THEN ShiftUp(c, t) ELSE 0
             dn == IF c >= t THEN 0 ELSE ShiftDown(c, t)
             num == c * Pow2(dn)
             den == t * Pow2(up)
             qa == DivLimb(num - den, den, (TopBits - 1) \div 2)
             qb == DivLimb(qa.r, den, LimbBits \div 2)
             qc == DivLimb(qb.r, den, LimbBits \div 2)
             rb == DivChunk(qc.r, den, 1)
         IN F64Round([a |-> Pow2(TopBits - 1) + qa.q, b |-> qb.q, c |-> qc.q,
                      e |-> up - dn],
                     rb.q = 1, rb.r # 0)

\* the number of bits of n above the 17 of a top limb
RECURSIVE ExtraBits(_)
ExtraBits(n) == IF n < Pow2(TopBits) THEN 0 ELSE 1 + ExtraBits(n \div 2)

\* x * (k as f64) for an integer 0 < k < 2^12 (exactly an f64): the exact
\* product of the significands, shifted back to 53 bits and rounded once
F64MulInt(x, k) ==
    IF x = F64Zero THEN F64Zero
    ELSE LET pc == x.c * k
             pb == x.b * k + pc \div Limb
             pa == x.a * k + pb \div Limb
             c1 == pc % Limb
             b1 == pb % Limb
             s == ExtraBits(pa)
             cut == Pow2(s)
             up == Pow2(LimbBits - s)
             dropped == c1 % cut
         IN F64Round([a |-> pa \div cut,
                      b |-> (pa % cut) * up + b1 \div cut,
                      c |-> (b1 % cut) * up + c1 \div cut,
                      e |-> x.e + s],
                     s > 0 /\ dropped >= Pow2(s - 1) /\ dropped \div Pow2(s - 1) = 1,
                     s > 0 /\ dropped % Pow2(s - 1) # 0)

U8Bits == 8
U8Max == Pow2(U8Bits) - 1

\* `x as u8` for a non-negative finite f64: truncation, saturating at u8::MAX
F64AsU8(x) ==
    IF x = F64Zero \/ x.e < 0 THEN 0
    ELSE IF x.e >= U8Bits THEN U8Max
    ELSE x.a \div Pow2(TopBits - 1 - x.e)

PercentScale == 100

\* fn calculate_progress_percentage(progress: &CopyProgress) -> u8
calculate_progress_percentage(progress) ==
    IF progress.total_bytes = 0
    THEN 0
    ELSE F64AsU8(F64MulInt(F64Div(progress.copied_bytes, progress.total_bytes),
                           PercentScale))

\* ------------------------------------------------------------------------
\* String literals of the program
\* ------------------------------------------------------------------------
\* "OP-Z" (BackupConfig::default)
OPZ == <<"O", "P", "-", "Z">>
\* "Volume" (parse_macos_mount_points)
Volume == <<"V", "o", "l", "u", "m", "e">>
\* "/media/" and "/mnt/" (parse_linux_mount_points)
MediaPrefix == <<"/", "m", "e", "d", "i", "a", "/">>
MntPrefix == <<"/", "m", "n", "t", "/">>
\* "Unknown" (extract_device_name)
Unknown == <<"U", "n", "k", "n", "o", "w", "n">>
\* "..." (display_file)
Ellipsis == <<".", ".", ".">>

\* parts.get(8) and parts.get(5), zero-based
MacosMountColumn == 8
LinuxMountColumn == 5
\* .skip(1)
HeaderLines == 1
\* progress.current_file.len() > 50, and len() - 47
DisplayLimit == 50
DisplayKeep == 47
\* progress!(100)
BarTotal == 100

Platforms == {"MacOS", "Linux", "Windows"}

\* ------------------------------------------------------------------------
\* Pure functions
\* ------------------------------------------------------------------------
\* fn extract_device_name(path: &str) -> String
extract_device_name(path) ==
    LET segments == Split(path, "/")
    IN IF Len(segments) = 0 THEN Unknown ELSE Last(segments)

MountPoint(mount_path) ==
    [path |-> mount_path, device_name |-> extract_device_name(mount_path)]

\* Vec::get(i), zero-based: is there an element, and which
HasColumn(parts, i) == Len(parts) > i
Column(parts, i) == parts[i + 1]

\* .skip(n) on the lines
Skip(lines, n) == SubSeq(lines, n + 1, Len(lines))

None == [some |-> FALSE, value |-> [path |-> << >>, device_name |-> << >>]]
Some(v) == [some |-> TRUE, value |-> v]

\* .filter_map(f).collect() on the closure's results: the Some values, in order
RECURSIVE FilterMap(_)
FilterMap(opts) ==
    IF opts = << >> THEN << >>
    ELSE IF Head(opts).some THEN <<Head(opts).value>> \o FilterMap(Tail(opts))
    ELSE FilterMap(Tail(opts))

\* the closure of parse_macos_mount_points
MacosRow(line) ==
    LET parts == SplitWhitespace(line)
    IN IF ~HasColumn(parts, MacosMountColumn) THEN None
       ELSE IF Contains(Column(parts, MacosMountColumn), Volume)
            THEN Some(MountPoint(Column(parts, MacosMountColumn)))
       ELSE None

\* parse_macos_mount_points without .skip(1): the header is parsed as a row
parse_macos_mount_points_noskip(out) ==
    LET rows == Lines(out)
    IN FilterMap([i \in 1..Len(rows) |-> MacosRow(rows[i])])

\* fn parse_macos_mount_points(df_output: &str) -> Vec<MountPoint>
parse_macos_mount_points(out) ==
    LET rows == Skip(Lines(out), HeaderLines)
    IN FilterMap([i \in 1..Len(rows) |-> MacosRow(rows[i])])

\* the closure of parse_linux_mount_points without the "/mnt/" alternative
LinuxRow_media_only(line) ==
    LET parts == SplitWhitespace(line)
    IN IF ~HasColumn(parts, LinuxMountColumn) THEN None
       ELSE IF StartsWith(Column(parts, LinuxMountColumn), MediaPrefix)
            THEN Some(MountPoint(Column(parts, LinuxMountColumn)))
       ELSE None

\* the closure of parse_linux_mount_points
LinuxRow(line) ==
    LET parts == SplitWhitespace(line)
    IN IF ~HasColumn(parts, LinuxMountColumn) THEN None
       ELSE IF \/ StartsWith(Column(parts, LinuxMountColumn), MediaPrefix)
               \/ StartsWith(Column(parts, LinuxMountColumn), MntPrefix)
            THEN Some(MountPoint(Column(parts, LinuxMountColumn)))
       ELSE None

\* fn parse_linux_mount_points(df_output: &str) -> Vec<MountPoint>
parse_linux_mount_points(out) ==
    LET rows == Skip(Lines(out), HeaderLines)
    IN FilterMap([i \in 1..Len(rows) |-> LinuxRow(rows[i])])

\* fn parse_windows_mount_points(_df_output: &str) -> Vec<MountPoint>
parse_windows_mount_points(out) == << >>

\* fn parse_mount_points(df_output: &str, platform: Platform) -> Vec<MountPoint>
parse_mount_points(out, plat) ==
    CASE plat = "MacOS" -> parse_macos_mount_points(out)
      [] plat = "Linux" -> parse_linux_mount_points(out)
      [] plat = "Windows" -> parse_windows_mount_points(out)

NoMount == [path |-> << >>, device_name |-> << >>]
NotFound == [found |-> FALSE, mount |-> NoMount]
Found(mp) == [found |-> TRUE, mount |-> mp]

\* Iterator::find: the first element the predicate accepts
RECURSIVE FindFirst(_, _)
FindFirst(mps, pattern) ==
    IF mps = << >> THEN NotFound
    ELSE IF Contains(Head(mps).device_name, pattern) THEN Found(Head(mps))
    ELSE FindFirst(Tail(mps), pattern)

\* find_device taking the last match (rfind) instead of the first
find_device_last(mps, pattern) ==
    LET hits == {i \in 1..Len(mps) : Contains(mps[i].device_name, pattern)}
    IN IF hits = {} THEN NotFound
       ELSE Found(mps[CHOOSE i \in hits : \A j \in hits : j <= i])

\* fn find_device(mount_points: Vec<MountPoint>, pattern: &str) -> DeviceDiscovery
find_device(mps, pattern) == FindFirst(mps, pattern)

\* str::is_char_boundary: byte offset i (zero-based) starts a character
IsCharBoundary(s, i) ==
    \/ i = 0
    \/ i = Len(s)
    \/ (i < Len(s) /\ s[i + 1] # "CB")

\* let display_file = if current_file.len() > 50 { format!("...{}",
\* &current_file[len - 47..]) } else { current_file.clone() };
\* slicing off a character boundary panics
display_file(current_file) ==
    IF Len(current_file) > DisplayLimit
    THEN LET from == Len(current_file) - DisplayKeep
         IN IF IsCharBoundary(current_file, from)
            THEN [panic |-> FALSE,
                  label |-> Ellipsis \o SubSeq(current_file, from + 1, Len(current_file))]
            ELSE [panic |-> TRUE, label |-> << >>]
    ELSE [panic |-> FALSE, label |-> current_file]

NewBar == [pos |-> 0, message |-> << >>, finished |-> FALSE]

\* progress_callback without `current_percent = percent`
progress_callback_stale(cur, b, progress) ==
    LET percent == calculate_progress_percentage(progress)
        shown == display_file(progress.current_file)
    IN [current_percent |-> cur,
        bar |-> [b EXCEPT !.pos = IF percent > cur THEN @ + (percent - cur) ELSE @,
                          !.message = IF shown.panic THEN @ ELSE shown.label],
        panic |-> shown.panic]

\* the closure progress_callback of run_backup_with_config: the new
\* current_percent and bar, and whether the closure panicked (after the
\* increment, before bar.message)
progress_callback(cur, b, progress) ==
    LET percent == calculate_progress_percentage(progress)
        advance == percent > cur
        cur2 == IF advance THEN percent ELSE cur
        pos2 == IF advance THEN b.pos + (percent - cur) ELSE b.pos
        shown == display_file(progress.current_file)
    IN [current_percent |-> cur2,
        bar |-> [b EXCEPT !.pos = pos2,
                          !.message = IF shown.panic THEN @ ELSE shown.label],
        panic |-> shown.panic]

\* `handle` with total_bytes_copied += copied_bytes
handle_sum(total, cur, b, process_info) ==
    LET cb == progress_callback(cur, b,
                                [total_bytes |-> process_info.total_bytes,
                                 copied_bytes |-> process_info.copied_bytes,
                                 current_file |-> process_info.file_name])
    IN [total_bytes_copied |-> total + process_info.copied_bytes,
        current_percent |-> cb.current_percent,
        bar |-> cb.bar,
        panic |-> cb.panic,
        ret |-> "ContinueOrAbort"]

\* the closure `handle` of copy_files_with_progress
handle(total, cur, b, process_info) ==
    LET progress == [total_bytes |-> process_info.total_bytes,
                     copied_bytes |-> process_info.copied_bytes,
                     current_file |-> process_info.file_name]
        cb == progress_callback(cur, b, progress)
    IN [total_bytes_copied |-> process_info.copied_bytes,
        current_percent |-> cb.current_percent,
        bar |-> cb.bar,
        panic |-> cb.panic,
        ret |-> "ContinueOrAbort"]

\* fn get_mounted_devices(platform: Platform) -> Result<String, BackupError>
\* on the command's response
get_mounted_devices(response) ==
    IF ~response.spawned THEN [kind |-> "CommandExecution", out |-> << >>]
    ELSE IF ~response.success THEN [kind |-> "CommandExecution", out |-> << >>]
    ELSE IF ~response.utf8 THEN [kind |-> "InvalidOutput", out |-> << >>]
    ELSE [kind |-> "Ok", out |-> response.stdout]

\* ensure_directory dropping the error of create_dir_all
ensure_directory_swallow(exists, create_ok) ==
    [kind |-> "Ok", exists |-> exists \/ create_ok, created |-> ~exists /\ create_ok]

\* fn ensure_directory(path: &str) -> Result<(), BackupError>
\* on whether the path exists and whether create_dir_all succeeds
ensure_directory(exists, create_ok) ==
    IF ~exists
    THEN (IF create_ok THEN [kind |-> "Ok", exists |-> TRUE, created |-> TRUE]
          ELSE [kind |-> "DirectoryCreation", exists |-> FALSE, created |-> FALSE])
    ELSE [kind |-> "Ok", exists |-> TRUE, created |-> FALSE]

\* ------------------------------------------------------------------------
\* Inputs: what the environment (the listing command, the file system, the
\* copy engine) can hand to the program
\* ------------------------------------------------------------------------
SeqsUpTo(S, n) == UNION {[1..k -> S] : k \in 0..n}

RECURSIVE Join(_, _)
Join(cols, sep) ==
    IF cols = << >> THEN << >>
    ELSE IF Len(cols) = 1 THEN Head(cols)
    ELSE Head(cols) \o sep \o Join(Tail(cols), sep)

Repeat(c, n) == [i \in 1..n |-> c]

Foo == <<"F", "o", "o">>
Filler == <<"x">>
Fillers(n) == [i \in 1..n |-> Filler]
Sp == <<" ">>

\* mount-path columns
VolOPZ == <<"/">> \o Volume \o <<"s", "/">> \o OPZ
MyVolume == <<"/", "M", "y">> \o Volume
LowerVol == <<"/", "v", "o", "l", "u", "m", "e", "s", "/">> \o OPZ
MediaOPZ == MediaPrefix \o OPZ
MntFoo == MntPrefix \o Foo
MediaBare == <<"/", "m", "e", "d", "i", "a">>
Root == <<"/">>

\* rows of a listing: by the number of columns and what the 6th and 9th hold
RowSet ==
    { Join(Fillers(8) \o <<VolOPZ>>, Sp),
      Join(Fillers(5) \o <<MediaOPZ>>, Sp),
      Join(Fillers(5) \o <<MntFoo>> \o Fillers(2) \o <<MyVolume>>, Sp),
      Join(<<VolOPZ>> \o Fillers(4) \o <<Root>> \o <<MediaOPZ>> \o <<Volume>> \o <<Root>>, Sp),
      Join(Fillers(5) \o <<MediaBare>> \o Fillers(2) \o <<LowerVol>> \o Fillers(1), Sp),
      Join(Fillers(3), Sp),
      <<" ">> \o Join(Fillers(5) \o <<MediaOPZ>> \o Fillers(2) \o <<VolOPZ>>, <<" ", "\t">>) \o <<"\r">>,
      << >> }

\* first lines: a header, and a line that would qualify as a row
Header == <<"F", "S", " ", "M", "o", "u", "n", "t", "e", "d", " ", "o", "n">>

Headers ==
    { Header,
      Join(Fillers(5) \o <<MntFoo>> \o Fillers(2) \o <<VolOPZ>>, Sp) }

\* the text of the lines; the last line ending is there or not
RECURSIVE Unlines(_, _)
Unlines(lines, final) ==
    IF lines = << >> THEN << >>
    ELSE IF Len(lines) = 1 THEN Head(lines) \o (IF final THEN <<"\n">> ELSE << >>)
    ELSE Head(lines) \o <<"\n">> \o Unlines(Tail(lines), final)

DfOutputs(maxRows) ==
    {<< >>} \cup
    { Unlines(<<h>> \o rows, final) :
        h \in Headers, rows \in SeqsUpTo(RowSet, maxRows), final \in BOOLEAN }

Patterns == {OPZ, Foo}

\* what the listing command can answer
CommandResponses ==
    { [spawned |-> FALSE, success |-> FALSE, utf8 |-> FALSE, stdout |-> << >>],
      [spawned |-> TRUE, success |-> FALSE, utf8 |-> TRUE, stdout |-> << >>],
      [spawned |-> TRUE, success |-> TRUE, utf8 |-> FALSE, stdout |-> << >>] } \cup
    { [spawned |-> TRUE, success |-> TRUE, utf8 |-> TRUE, stdout |-> out] :
        out \in DfOutputs(MaxRunRows) }

\* a file name: `lead` ASCII bytes, a character of `wide` bytes (none when
\* wide = 0), `tail` ASCII bytes
WideChar(wide) ==
    CASE wide = 0 -> << >>
      [] wide = 2 -> <<"L2", "CB">>
      [] wide = 3 -> <<"L3", "CB", "CB">>

FileName(lead, wide, tail) == Repeat("a", lead) \o WideChar(wide) \o Repeat("b", tail)

CharWidths == {0, 2, 3}

FileNames ==
    { FileName(lead, wide, tail) :
        lead \in 0..MaxLead, wide \in CharWidths, tail \in 0..MaxTail }

\* the file names of a run's transfer events: short, long, and long with a
\* multi-byte character across the cut
RunFileNames == {FileName(1, 0, 1), FileName(5, 0, 46), FileName(3, 2, 46)}

\* fs_extra::TransitProcess, as far as `handle` reads it
TransferEvents ==
    [total_bytes : 0..MaxEvTotal, copied_bytes : 0..MaxEvCopied, file_name : RunFileNames]

NoEvent == [total_bytes |-> 0, copied_bytes |-> 0, file_name |-> << >>]

\* ------------------------------------------------------------------------
\* State
\* ------------------------------------------------------------------------
VARIABLES
    pc,                  \* where run_backup_with_config stands
    platform,            \* let platform = detect_platform()
    config,              \* config: BackupConfig (device_name_pattern)
    df_output,           \* let df_output
    mount_points,        \* let mount_points
    device_discovery,    \* let device_discovery
    device_mount,        \* let device_mount
    fs_exists,           \* file system: does backup_dest exist
    dir_created,         \* file system: create_dir_all made backup_dest in this run
    copy_invoked,        \* copy_with_progress has been called
    bar,                 \* let bar = progress!(100)
    current_percent,     \* let mut current_percent = 0u8
    total_bytes_copied,  \* let mut total_bytes_copied = 0u64
    last_event,          \* the TransitProcess `handle` was last called with
    event_seen,          \* `handle` has been called
    handler_ret,         \* what `handle` last returned to the engine
    list_ret,            \* what get_mounted_devices returned
    engine_ret,          \* what copy_with_progress returned
    result,              \* the BackupResult returned
    stages,              \* the stages executed so far, in order
    arg,                 \* argument of a pure function checked alone
    ret                  \* its result

vars == <<pc, platform, config, df_output, mount_points, device_discovery,
          device_mount, fs_exists, dir_created, copy_invoked, bar,
          current_percent, total_bytes_copied, last_event, event_seen,
          handler_ret, list_ret, engine_ret, result, stages, arg, ret>>

discoveryVars == <<df_output, mount_points, device_discovery, device_mount>>
copyVars == <<copy_invoked, bar, current_percent, total_bytes_copied,
              last_event, event_seen, handler_ret, engine_ret>>
fsVars == <<fs_exists, dir_created>>
fnVars == <<arg, ret>>

NoResult == [kind |-> "None", bytes |-> 0]
Ok(n) == [kind |-> "Ok", bytes |-> n]
Err(kind) == [kind |-> kind, bytes |-> 0]

\* nothing has run yet
Fresh ==
    /\ df_output = << >>
    /\ mount_points = << >>
    /\ device_discovery = NotFound
    /\ device_mount = NoMount
    /\ dir_created = FALSE
    /\ copy_invoked = FALSE
    /\ bar = NewBar
    /\ current_percent = 0
    /\ total_bytes_copied = 0
    /\ last_event = NoEvent
    /\ event_seen = FALSE
    /\ handler_ret = "None"
    /\ list_ret = "None"
    /\ engine_ret = "None"
    /\ result = NoResult
    /\ stages = << >>

\* ------------------------------------------------------------------------
\* run_backup_with_config
\* ------------------------------------------------------------------------
\* entry: any build (platform), any config, the destination there or not
Init ==
    /\ pc = "start"
    /\ platform \in Platforms
    /\ config \in [device_name_pattern : Patterns]
    /\ fs_exists \in BOOLEAN
    /\ Fresh
    /\ arg = 0
    /\ ret = 0

\* let df_output = get_mounted_devices(platform)?;
ListMounts ==
    /\ pc = "start"
    /\ \E response \in CommandResponses :
         LET r == get_mounted_devices(response)
         IN /\ list_ret' = r.kind
            /\ IF r.kind = "Ok"
               THEN /\ df_output' = r.out
                    /\ pc' = "listed"
                    /\ result' = result
               ELSE /\ df_output' = df_output
                    /\ pc' = "done"
                    /\ result' = Err(r.kind)
    /\ stages' = Append(stages, "ListMounts")
    /\ UNCHANGED <<platform, config, mount_points, device_discovery, device_mount,
                   fsVars, copyVars, fnVars>>

\* let mount_points = parse_mount_points(&df_output, platform);
ParseMounts ==
    /\ pc = "listed"
    /\ mount_points' = parse_mount_points(df_output, platform)
    /\ pc' = "parsed"
    /\ stages' = Append(stages, "ParseMounts")
    /\ UNCHANGED <<platform, config, df_output, device_discovery, device_mount,
                   fsVars, copyVars, list_ret, result, fnVars>>

\* let device_discovery = find_device(mount_points, &config.device_name_pattern);
\* let device_mount = match device_discovery { NotFound => return Err(..), Found(mount) => mount };
LocateDevice ==
    /\ pc = "parsed"
    /\ LET d == find_device(mount_points, config.device_name_pattern)
       IN /\ device_discovery' = d
          /\ IF d.found
             THEN /\ device_mount' = d.mount
                  /\ pc' = "located"
                  /\ result' = result
             ELSE /\ device_mount' = device_mount
                  /\ pc' = "done"
                  /\ result' = Err("DeviceNotFound")
    /\ stages' = Append(stages, "LocateDevice")
    /\ UNCHANGED <<platform, config, df_output, mount_points, fsVars, copyVars,
                   list_ret, fnVars>>

\* ensure_directory(&backup_dest)?;
PrepareDestination ==
    /\ pc = "located"
    /\ \E create_ok \in BOOLEAN :
         LET r == ensure_directory(fs_exists, create_ok)
         IN /\ fs_exists' = r.exists
            /\ dir_created' = r.created
            /\ IF r.kind = "Ok"
               THEN pc' = "prepared" /\ result' = result
               ELSE pc' = "done" /\ result' = Err(r.kind)
    /\ stages' = Append(stages, "PrepareDestination")
    /\ UNCHANGED <<platform, config, discoveryVars, copyVars, list_ret, fnVars>>

\* let bar = progress!(100).unwrap(); let mut current_percent = 0u8;
\* copy_files_with_progress(..): total_bytes_copied = 0, copy_with_progress called
StartCopy ==
    /\ pc = "prepared"
    /\ bar' = NewBar
    /\ current_percent' = 0
    /\ total_bytes_copied' = 0
    /\ copy_invoked' = TRUE
    /\ pc' = "copying"
    /\ stages' = Append(stages, "Copy")
    /\ UNCHANGED <<platform, config, discoveryVars, fsVars, last_event, event_seen,
                   handler_ret, list_ret, engine_ret, result, fnVars>>

\* the copy engine calls `handle` with a transfer event; a panic of the
\* callback unwinds out of the run
TransferEvent ==
    /\ pc = "copying"
    /\ \E process_info \in TransferEvents :
         LET h == handle(total_bytes_copied, current_percent, bar, process_info)
         IN /\ last_event' = process_info
            /\ event_seen' = TRUE
            /\ total_bytes_copied' = h.total_bytes_copied
            /\ current_percent' = h.current_percent
            /\ bar' = h.bar
            /\ IF h.panic
               THEN pc' = "panicked" /\ handler_ret' = handler_ret
               ELSE pc' = "copying" /\ handler_ret' = h.ret
    /\ UNCHANGED <<platform, config, discoveryVars, fsVars, copy_invoked, list_ret,
                   engine_ret, result, stages, fnVars>>

\* copy_with_progress returns: .map_err(CopyOperation)?; Ok(total_bytes_copied);
\* then bar.finish(); Ok(bytes_copied)
CopyReturns ==
    /\ pc = "copying"
    /\ \E engine_ok \in BOOLEAN :
         IF engine_ok
         THEN /\ engine_ret' = "Ok"
              /\ bar' = [bar EXCEPT !.finished = TRUE]
              /\ result' = Ok(total_bytes_copied)
         ELSE /\ engine_ret' = "Err"
              /\ bar' = bar
              /\ result' = Err("CopyOperation")
    /\ pc' = "done"
    /\ UNCHANGED <<platform, config, discoveryVars, fsVars, copy_invoked,
                   current_percent, total_bytes_copied, last_event, event_seen,
                   handler_ret, list_ret, stages, fnVars>>

Next ==
    \/ ListMounts
    \/ ParseMounts
    \/ LocateDevice
    \/ PrepareDestination
    \/ StartCopy
    \/ TransferEvent
    \/ CopyReturns

Spec == Init /\ [][Next]_vars

\* ------------------------------------------------------------------------
\* Device discovery alone: parse_mount_points and find_device on any listing
\* ------------------------------------------------------------------------
InitDiscovery ==
    /\ pc = "listed"
    /\ platform \in Platforms
    /\ config \in [device_name_pattern : Patterns]
    /\ df_output \in DfOutputs(MaxRows)
    /\ mount_points = << >>
    /\ device_discovery = NotFound
    /\ device_mount = NoMount
    /\ fs_exists = FALSE
    /\ dir_created = FALSE
    /\ copy_invoked = FALSE
    /\ bar = NewBar
    /\ current_percent = 0
    /\ total_bytes_copied = 0
    /\ last_event = NoEvent
    /\ event_seen = FALSE
    /\ handler_ret = "None"
    /\ list_ret = "Ok"
    /\ engine_ret = "None"
    /\ result = NoResult
    /\ stages = <<"ListMounts">>
    /\ arg = 0
    /\ ret = 0

NextDiscovery ==
    \/ ParseMounts
    \/ LocateDevice

SpecDiscovery == InitDiscovery /\ [][NextDiscovery]_vars

\* find_device alone, on any sequence of mount points
Mount(p, name) == [path |-> p, device_name |-> name]

MountSet ==
    { Mount(<<"/", "a">>, Foo),
      Mount(<<"/", "b">>, OPZ \o <<"-", "1">>),
      Mount(<<"/", "c">>, OPZ \o <<"-", "2">>),
      Mount(<<"/", "d">>, <<"o", "p", "-", "z">>) }

FindPatterns == Patterns \cup {<< >>, <<"Z", "-">>}

InitFind ==
    /\ pc = "parsed"
    /\ platform = "Linux"
    /\ config \in [device_name_pattern : FindPatterns]
    /\ df_output = << >>
    /\ mount_points \in SeqsUpTo(MountSet, MaxMounts)
    /\ device_discovery = NotFound
    /\ device_mount = NoMount
    /\ fs_exists = FALSE
    /\ dir_created = FALSE
    /\ copy_invoked = FALSE
    /\ bar = NewBar
    /\ current_percent = 0
    /\ total_bytes_copied = 0
    /\ last_event = NoEvent
    /\ event_seen = FALSE
    /\ handler_ret = "None"
    /\ list_ret = "Ok"
    /\ engine_ret = "None"
    /\ result = NoResult
    /\ stages = <<"ListMounts", "ParseMounts">>
    /\ arg = 0
    /\ ret = 0

SpecFind == InitFind /\ [][LocateDevice]_vars

\* ------------------------------------------------------------------------
\* Pure functions alone: `arg` is the argument, `ret` the result
\* ------------------------------------------------------------------------
InitFn ==
    /\ pc = "call"
    /\ platform = "Linux"
    /\ config = [device_name_pattern |-> OPZ]
    /\ fs_exists = FALSE
    /\ Fresh

Return(value) ==
    /\ pc = "call"
    /\ ret' = value
    /\ pc' = "returned"
    /\ UNCHANGED <<platform, config, discoveryVars, fsVars, copyVars, list_ret,
                   result, stages, arg>>

\* calculate_progress_percentage on any byte counts
InitPercentage ==
    /\ InitFn
    /\ arg \in [total_bytes : 0..MaxTotalBytes, copied_bytes : 0..MaxCopiedBytes]
    /\ ret = 0

CallPercentage == Return(calculate_progress_percentage(arg))

SpecPercentage == InitPercentage /\ [][CallPercentage]_vars

\* extract_device_name on any path
PathBytes == {"/", "a", "b"}
NoSlash == <<"n", "o", "s", "l", "a", "s", "h">>
Paths == SeqsUpTo(PathBytes, MaxPathLen) \cup {VolOPZ, NoSlash, MediaOPZ}

InitDeviceName ==
    /\ InitFn
    /\ arg \in Paths
    /\ ret = << >>

CallDeviceName == Return(extract_device_name(arg))

SpecDeviceName == InitDeviceName /\ [][CallDeviceName]_vars

\* display_file on any file name
InitDisplayFile ==
    /\ InitFn
    /\ arg \in FileNames
    /\ ret = [panic |-> FALSE, label |-> << >>]

CallDisplayFile == Return(display_file(arg))

SpecDisplayFile == InitDisplayFile /\ [][CallDisplayFile]_vars

\* ------------------------------------------------------------------------
\* Properties
\* ------------------------------------------------------------------------
ProgressOf(ev) ==
    [total_bytes |-> ev.total_bytes, copied_bytes |-> ev.copied_bytes,
     current_file |-> ev.file_name]

\* the percent of the transfer event last delivered
LastPercent == calculate_progress_percentage(ProgressOf(last_event))

\* C1, on every state: the increments emitted so far (the bar's position)
\* add up to current_percent
C1_SumOfIncrements == bar.pos = current_percent

\* C1, on every step of a copy: current_percent never decreases; an event
\* whose percent is above current_percent advances the bar by exactly the
\* difference and makes current_percent that percent; any other event leaves
\* both as they were
C1_EventStep ==
    pc = "copying" =>
        /\ current_percent' >= current_percent
        /\ pc' \in {"copying", "panicked"} =>
             LET percent == calculate_progress_percentage(ProgressOf(last_event'))
             IN IF percent > current_percent
                THEN /\ bar'.pos - bar.pos = percent - current_percent
                     /\ current_percent' = percent
                ELSE /\ bar'.pos = bar.pos
                     /\ current_percent' = current_percent

\* C1: during one copy lastReportedPercent never decreases, an increment is
\* emitted only for a strictly greater percent and is exactly the
\* difference, and the increments add up to lastReportedPercent
C1_MonotoneIncrements == [](C1_SumOfIncrements) /\ [][C1_EventStep]_vars

\* C1 witness: after an advance to 100 an event of a lower percent arrived
\* and changed nothing
C1_Witness ==
    /\ pc = "copying"
    /\ event_seen
    /\ current_percent = 100
    /\ bar.pos = 100
    /\ LastPercent = 50

\* C2: after any transfer events the event's percent, lastReportedPercent
\* and the total advance of the 100-step bar are all within 0..100
C2_Bounded ==
    /\ current_percent \in 0..BarTotal
    /\ bar.pos \in 0..BarTotal
    /\ event_seen => LastPercent \in 0..BarTotal

\* C3: calculate_progress_percentage returns floor(copied * 100 / total)
\* when total > 0 and 0 when total = 0.  Read on the arguments whose floor
\* fits the u8 result (above that the claim names a value no u8 holds)
C3_FloorPercent ==
    pc = "returned" =>
        IF arg.total_bytes = 0 THEN ret = 0
        ELSE LET floor == (arg.copied_bytes * 100) \div arg.total_bytes
             IN floor <= U8Max => ret = floor

Matches(mp, pattern) == Contains(mp.device_name, pattern)

\* C4: find_device returns Found(m) for the earliest mount point whose
\* device name contains the pattern, and NotFound exactly when none does
C4_FirstMatch ==
    pc \in {"located", "done"} =>
        LET pattern == config.device_name_pattern
            hits == {i \in 1..Len(mount_points) : Matches(mount_points[i], pattern)}
        IN /\ device_discovery.found <=> hits # {}
           /\ device_discovery.found =>
                \E i \in hits :
                    /\ device_discovery.mount = mount_points[i]
                    /\ \A j \in 1..(i - 1) : ~Matches(mount_points[j], pattern)

\* C4 witness: mounts [Foo, OP-Z-1, OP-Z-2] and pattern "OP-Z" gave OP-Z-1
C4_Witness ==
    /\ pc = "located"
    /\ config.device_name_pattern = OPZ
    /\ mount_points = << Mount(<<"/", "a">>, Foo),
                         Mount(<<"/", "b">>, OPZ \o <<"-", "1">>),
                         Mount(<<"/", "c">>, OPZ \o <<"-", "2">>) >>
    /\ device_discovery = Found(Mount(<<"/", "b">>, OPZ \o <<"-", "1">>))

\* the part of a path after its last "/", the whole path when it has none
LastSegment(path) ==
    LET slashes == {i \in 1..Len(path) : path[i] = "/"}
    IN IF slashes = {} THEN path
       ELSE SubSeq(path, (CHOOSE i \in slashes : \A j \in slashes : j <= i) + 1, Len(path))

\* C5: extract_device_name returns the final "/"-delimited segment, and
\* "Unknown" for the path with no such segment: "/Volumes/OP-Z" gives
\* "OP-Z", "noslash" gives "noslash", "" gives "Unknown"
C5_DeviceName ==
    pc = "returned" =>
        /\ arg = VolOPZ => ret = OPZ
        /\ arg = NoSlash => ret = NoSlash
        /\ arg = << >> => ret = Unknown
        /\ arg # << >> => ret = LastSegment(arg)

\* the lines of the listing, and the mount points the claims expect: for
\* the lines after the first that have column `col` (zero-based) and whose
\* column is accepted, in line order, that column and its last segment
RowColumn(line, col) == SplitWhitespace(line)[col + 1]
HasRowColumn(line, col) == Len(SplitWhitespace(line)) >= col + 1

MacosAccepts(field) == Contains(field, Volume)
LinuxAccepts(field) ==
    \/ (Len(field) >= 7 /\ SubSeq(field, 1, 7) = MediaPrefix)
    \/ (Len(field) >= 5 /\ SubSeq(field, 1, 5) = MntPrefix)

ExpectedRows(col, accepted) ==
    LET lines == Lines(df_output)
        rows == {i \in 2..Len(lines) : HasRowColumn(lines[i], col) /\ accepted[i]}
    IN /\ Len(mount_points) = Cardinality(rows)
       /\ \A i \in rows :
            LET k == Cardinality({j \in rows : j <= i})
                field == RowColumn(lines[i], col)
            IN mount_points[k] = [path |-> field, device_name |-> LastSegment(field)]

\* C6: for macOS the parser drops line 0 and emits, in line order, exactly
\* the later lines that have a 9th column containing "Volume", with that
\* column as path and its last "/" segment as device name
C6_MacosRows ==
    (platform = "MacOS" /\ pc \in {"parsed", "located", "done"}) =>
        LET lines == Lines(df_output)
        IN ExpectedRows(8, [i \in 1..Len(lines) |->
                               HasRowColumn(lines[i], 8)
                               /\ MacosAccepts(RowColumn(lines[i], 8))])

\* C6 witness: a listing whose first line would qualify, with a qualifying
\* row after a short row, parsed to the one mount point of that row
C6_Witness ==
    /\ platform = "MacOS"
    /\ pc = "parsed"
    /\ Len(Lines(df_output)) = 3
    /\ HasRowColumn(Lines(df_output)[1], 8)
    /\ MacosAccepts(RowColumn(Lines(df_output)[1], 8))
    /\ ~HasRowColumn(Lines(df_output)[2], 8)
    /\ mount_points = <<[path |-> VolOPZ, device_name |-> OPZ]>>

\* C7: for Linux the parser drops line 0 and emits, in line order, exactly
\* the later lines that have a 6th column starting with "/media/" or
\* "/mnt/"; a header and one row with "/media/OP-Z" in the 6th column,
\* located with pattern "OP-Z", give Found(/media/OP-Z, OP-Z)
C7_LinuxRows ==
    (platform = "Linux" /\ pc \in {"parsed", "located", "done"}) =>
        LET lines == Lines(df_output)
        IN /\ ExpectedRows(5, [i \in 1..Len(lines) |->
                                  HasRowColumn(lines[i], 5)
                                  /\ LinuxAccepts(RowColumn(lines[i], 5))])
           /\ ( /\ pc \in {"located", "done"}
                /\ Len(lines) = 2
                /\ HasRowColumn(lines[2], 5)
                /\ RowColumn(lines[2], 5) = MediaOPZ
                /\ config.device_name_pattern = OPZ )
              => device_discovery = Found([path |-> MediaOPZ, device_name |-> OPZ])

\* C7 witness: the header and the one "/media/OP-Z" row, located
C7_Witness ==
    /\ platform = "Linux"
    /\ pc = "located"
    /\ Len(Lines(df_output)) = 2
    /\ Lines(df_output)[1] = Header
    /\ RowColumn(Lines(df_output)[2], 5) = MediaOPZ
    /\ Len(SplitWhitespace(Lines(df_output)[2])) = 6
    /\ config.device_name_pattern = OPZ
    /\ device_discovery = Found([path |-> MediaOPZ, device_name |-> OPZ])

StageOrder == <<"ListMounts", "ParseMounts", "LocateDevice", "PrepareDestination", "Copy">>

IsPrefix(short, long) ==
    /\ Len(short) <= Len(long)
    /\ \A i \in 1..Len(short) : short[i] = long[i]

Terminal == pc \in {"done", "panicked"}

\* C8, on every state: the stages ran at most once each and in order; the
\* run has an outcome exactly when it has returned; a failed stage is the
\* last one; a failed listing ends with CommandExecution or InvalidOutput
\* and no match ends with DeviceNotFound, both without a directory created
\* or the copy engine invoked; the copy engine is invoked only after
\* ensure_directory succeeded
C8_Stages ==
    /\ IsPrefix(stages, StageOrder)
    /\ (result # NoResult) <=> (pc = "done")
    /\ list_ret \in {"CommandExecution", "InvalidOutput"} =>
         /\ pc = "done"
         /\ result = Err(list_ret)
         /\ stages = SubSeq(StageOrder, 1, 1)
         /\ ~dir_created
         /\ ~copy_invoked
    /\ Len(stages) >= 2 => list_ret = "Ok"
    /\ (Len(stages) >= 3
        /\ \A i \in 1..Len(mount_points) :
              ~Matches(mount_points[i], config.device_name_pattern)) =>
         /\ pc = "done"
         /\ result = Err("DeviceNotFound")
         /\ stages = SubSeq(StageOrder, 1, 3)
         /\ ~dir_created
         /\ ~copy_invoked
    /\ Len(stages) >= 4 =>
         \E i \in 1..Len(mount_points) :
             Matches(mount_points[i], config.device_name_pattern)
    /\ result.kind = "DeviceNotFound" => stages = SubSeq(StageOrder, 1, 3)
    /\ result.kind = "DirectoryCreation" =>
         /\ stages = SubSeq(StageOrder, 1, 4)
         /\ ~fs_exists
         /\ ~dir_created
         /\ ~copy_invoked
    /\ copy_invoked <=> Len(stages) = 5
    /\ copy_invoked => fs_exists
    /\ dir_created => Len(stages) >= 4
    /\ result.kind \in {"Ok", "CopyOperation"} => copy_invoked

\* C8, on every step: a run that has ended takes no further step
C8_NoStepAfterEnd == ~Terminal

C9_LastCopiedBytes ==
    /\ engine_ret = "Ok" =>
         result = Ok(IF event_seen THEN last_event.copied_bytes ELSE 0)
    /\ engine_ret = "Err" => result = Err("CopyOperation")
    /\ total_bytes_copied = (IF event_seen THEN last_event.copied_bytes ELSE 0)
    /\ handler_ret \in {"None", "ContinueOrAbort"}
    /\ (event_seen /\ pc # "panicked") => handler_ret = "ContinueOrAbort"

\* C9 witness: a completed copy whose last event carried fewer bytes than
\* an earlier one: the result is the last event's count
C9_Witness ==
    /\ pc = "done"
    /\ engine_ret = "Ok"
    /\ event_seen
    /\ last_event.copied_bytes = 1
    /\ current_percent > LastPercent
    /\ result = Ok(1)

\* C10: for every file name a label is produced without failing: the name
\* itself when its length is at most 50, else "..." and its last 47 bytes,
\* never more than 50 long
C10_Label ==
    pc = "returned" =>
        /\ ~ret.panic
        /\ Len(arg) <= DisplayLimit => ret.label = arg
        /\ Len(arg) > DisplayLimit =>
             ret.label = Ellipsis \o SubSeq(arg, Len(arg) - DisplayKeep + 1, Len(arg))
        /\ Len(ret.label) <= DisplayLimit

====
